---- MODULE Spec2Model ----
(***************************************************************************)
(* A model of src/src/query/query.py: QuerySampler (query_samples,         *)
(* active_callback, ranking_step) and the module functions                 *)
(* obtain_data_from_pool, evaluate_accuracy and vis_callback.              *)
(*                                                                         *)
(* Conventions.  Python indices are 0-based and are kept 0-based as        *)
(* VALUES; TLA+ sequences are 1-based, so element i of a Python list l is  *)
(* l[i + 1].  A Python call that can raise yields a record whose field err *)
(* is the exception's name ("" when it returned normally).  Every call to  *)
(* a collaborator is appended to a log of events, in program order.        *)
(* A float accuracy correct / counts is kept as the pair <<correct,        *)
(* counts>>; the integer 0 returned for an absent loader is <<0, 1>>.      *)
(* The model, the device and the stochastic-pass count m only reach the    *)
(* collaborators; what they make of them is the acquisition value each     *)
(* pool sample carries (pool_values).                                      *)
(***************************************************************************)
EXTENDS Integers, Sequences, FiniteSets, TLC

\* ------------------------------------------------------------------ bounds

\* Largest number of samples in the unlabelled pool.
MaxPool == 3
\* Largest acquisition value of a pool sample in the ranking specification.
MaxScore == 2
\* datamodule.batch_size, the length of the batches the loaders yield.
BatchSize == 2

\* ----------------------------------------------------------------- helpers

Min(a, b) == IF a <= b THEN a ELSE b

Range(s) == {s[i] : i \in 1..Len(s)}

\* One call to a collaborator: its name, the names of the arguments it was
\* handed, and one integer argument (acq_size, an index, a length).
Ev(op, args, n) == [op |-> op, args |-> args, n |-> n]

\* The positions of the events named op in a log.
Where(log, op) == {i \in 1..Len(log) : log[i].op = op}

\* ------------------------------------------------------------------- state

VARIABLES
    acq_method,     \* cfg.query.name, a sequence of characters
    acq_size,       \* cfg.active.acq_size
    rng,            \* the diversity sampler's own choice among admissible selections
    pool_values,    \* acquisition value of each pool sample, by pool-local index
    train_pool,     \* datamodule.train_set.pool: <<data, label>> by caller-visible index
    trans,          \* datamodule.get_pool_indices, by pool-local index
    n_labelled,     \* datamodule.train_set.n_labelled
    labeled,        \* the labelled samples the labeled loader iterates
    val_loader,     \* what datamodule.val_dataloader() returns
    test_loader,    \* what datamodule.test_dataloader() returns
    result          \* outcome of the last call made on the QuerySampler

inputs == <<acq_method, acq_size, rng, pool_values, train_pool, trans,
            n_labelled, labeled, val_loader, test_loader>>

vars == <<inputs, result>>

\* ------------------------------------------------- collaborators (from spec)

\* query_uncertainty.names and query_diversity.names: two disjoint sets of
\* strategy prefixes.
uncertainty_names == {<<"e">>, <<"b">>}

diversity_names == {<<"k">>}

\* A dataloader: the samples cut into batches of batch_size, in order.
RECURSIVE Batched(_, _)
Batched(samples, bs) ==
    IF samples = <<>> THEN <<>>
    ELSE IF Len(samples) <= bs THEN <<samples>>
    ELSE <<SubSeq(samples, 1, bs)>> \o Batched(SubSeq(samples, bs + 1, Len(samples)), bs)

pool_dataloader == Batched(pool_values, BatchSize)

labeled_dataloader == Batched(labeled, BatchSize)

\* get_pool_indices: translation of pool-local indices, element by element.
get_pool_indices(inds) == [i \in 1..Len(inds) |-> trans[inds[i] + 1]]

\* The pool pass of the uncertainty policy: <<pool-local index, score>> of
\* every sample, the index assigned by a running offset across the batches.
RECURSIVE ScorePass(_, _)
ScorePass(loader, offset) ==
    IF loader = <<>> THEN <<>>
    ELSE [i \in 1..Len(Head(loader)) |-> <<offset + i - 1, Head(loader)[i]>>]
         \o ScorePass(Tail(loader), offset + Len(Head(loader)))

\* Insertion of e after every entry whose score is >= e's: a stable
\* descending order.
RECURSIVE InsertDesc(_, _)
InsertDesc(sorted, e) ==
    IF sorted = <<>> THEN <<e>>
    ELSE IF Head(sorted)[2] >= e[2] THEN <<Head(sorted)>> \o InsertDesc(Tail(sorted), e)
    ELSE <<e>> \o sorted

RECURSIVE StableSortDesc(_)
StableSortDesc(s) ==
    IF s = <<>> THEN <<>>
    ELSE InsertDesc(StableSortDesc(SubSeq(s, 1, Len(s) - 1)), s[Len(s)])

\* query_uncertainty.query_sampler: score the whole pool, keep the acq_size
\* highest scores (ties: earlier sample first); an empty pool is an error.
uncertainty_query_sampler(pool_loader, acq_function, post_acq_function, k) ==
    LET call == Ev("query_uncertainty.query_sampler",
                   {"pool_loader", "acq_function", "post_acq_function", "acq_size"}, k)
        scored == ScorePass(pool_loader, 0)
        top == SubSeq(StableSortDesc(scored), 1, Min(k, Len(scored)))
    IN  IF scored = <<>>
        THEN [err |-> "EmptyPool", inds |-> <<>>, vals |-> <<>>, log |-> <<call>>]
        ELSE [err |-> "",
              inds |-> [i \in 1..Len(top) |-> top[i][1]],
              vals |-> [i \in 1..Len(top) |-> top[i][2]],
              log |-> <<call>>]

\* query_diversity.query_sampler: opaque beyond its contract (min(acq_size,
\* pool size) distinct pool-local indices and their scores).  Two admissible
\* selections are modelled, chosen by rng: the first samples in ascending
\* order, or the last samples in descending order.
diversity_query_sampler(labeled_loader, pool_loader, k, choice) ==
    LET call == Ev("query_diversity.query_sampler",
                   {"cfg", "model", "labeled_loader", "pool_loader", "acq_size"}, k)
        scored == ScorePass(pool_loader, 0)
        P == Len(scored)
        n == Min(k, P)
        picked == [i \in 1..n |-> IF choice = 0 THEN scored[i] ELSE scored[P + 1 - i]]
    IN  IF scored = <<>>
        THEN [err |-> "EmptyPool", inds |-> <<>>, vals |-> <<>>, log |-> <<call>>]
        ELSE [err |-> "",
              inds |-> [i \in 1..n |-> picked[i][1]],
              vals |-> [i \in 1..n |-> picked[i][2]],
              log |-> <<call>>]

\* query.storing.ActiveStore: the record active_callback returns.
ActiveStore(requests, n, accuracy_val, accuracy_test, labels) ==
    [requests |-> requests, n_labelled |-> n, accuracy_val |-> accuracy_val,
     accuracy_test |-> accuracy_test, labels |-> labels]

\* ------------------------------------------------------------- query.py

\* str.split("_")[0]: the characters before the first separator (the whole
\* name when it holds none, the empty string when it starts with one).
RECURSIVE SplitFirst(_)
SplitFirst(name) ==
    IF name = <<>> \/ Head(name) = "_" THEN <<>>
    ELSE <<Head(name)>> \o SplitFirst(Tail(name))

\* ranking_step with the diversity sampler as the default of the dispatch,
\* in place of the final raise.
ranking_step_default(pool_loader, labeled_loader) ==
    IF SplitFirst(acq_method) \in uncertainty_names
    THEN LET r == uncertainty_query_sampler(pool_loader, TRUE, TRUE, acq_size)
         IN  [r EXCEPT !.log = <<Ev("query_uncertainty.get_acq_function", {"cfg", "model"}, 0),
                                 Ev("query_uncertainty.get_post_acq_function", {"cfg"}, 0)>>
                                \o r.log]
    ELSE diversity_query_sampler(labeled_loader, pool_loader, acq_size, rng)

\* ranking_step handing the samplers acq_size + 1.
ranking_step_off_by_one(pool_loader, labeled_loader) ==
    IF SplitFirst(acq_method) \in uncertainty_names
    THEN LET r == uncertainty_query_sampler(pool_loader, TRUE, TRUE, acq_size + 1)
         IN  [r EXCEPT !.log = <<Ev("query_uncertainty.get_acq_function", {"cfg", "model"}, 0),
                                 Ev("query_uncertainty.get_post_acq_function", {"cfg"}, 0)>>
                                \o r.log]
    ELSE IF SplitFirst(acq_method) \in diversity_names
    THEN diversity_query_sampler(labeled_loader, pool_loader, acq_size + 1, rng)
    ELSE [err |-> "NotImplementedError", inds |-> <<>>, vals |-> <<>>, log |-> <<>>]

\* ranking_step with the two membership tests exchanged.
ranking_step_swapped(pool_loader, labeled_loader) ==
    IF SplitFirst(acq_method) \in diversity_names
    THEN LET r == uncertainty_query_sampler(pool_loader, TRUE, TRUE, acq_size)
         IN  [r EXCEPT !.log = <<Ev("query_uncertainty.get_acq_function", {"cfg", "model"}, 0),
                                 Ev("query_uncertainty.get_post_acq_function", {"cfg"}, 0)>>
                                \o r.log]
    ELSE IF SplitFirst(acq_method) \in uncertainty_names
    THEN diversity_query_sampler(labeled_loader, pool_loader, acq_size, rng)
    ELSE [err |-> "NotImplementedError", inds |-> <<>>, vals |-> <<>>, log |-> <<>>]

\* ranking_step looking up the whole name, the split forgotten.
ranking_step_whole_name(pool_loader, labeled_loader) ==
    IF acq_method \in uncertainty_names
    THEN LET r == uncertainty_query_sampler(pool_loader, TRUE, TRUE, acq_size)
         IN  [r EXCEPT !.log = <<Ev("query_uncertainty.get_acq_function", {"cfg", "model"}, 0),
                                 Ev("query_uncertainty.get_post_acq_function", {"cfg"}, 0)>>
                                \o r.log]
    ELSE IF acq_method \in diversity_names
    THEN diversity_query_sampler(labeled_loader, pool_loader, acq_size, rng)
    ELSE [err |-> "NotImplementedError", inds |-> <<>>, vals |-> <<>>, log |-> <<>>]

\* QuerySampler.ranking_step
ranking_step(pool_loader, labeled_loader) ==
    IF SplitFirst(acq_method) \in uncertainty_names
    THEN LET r == uncertainty_query_sampler(pool_loader, TRUE, TRUE, acq_size)
         IN  [r EXCEPT !.log = <<Ev("query_uncertainty.get_acq_function", {"cfg", "model"}, 0),
                                 Ev("query_uncertainty.get_post_acq_function", {"cfg"}, 0)>>
                                \o r.log]
    ELSE IF SplitFirst(acq_method) \in diversity_names
    THEN diversity_query_sampler(labeled_loader, pool_loader, acq_size, rng)
    ELSE [err |-> "NotImplementedError", inds |-> <<>>, vals |-> <<>>, log |-> <<>>]

\* query_samples returning the pool-local indices, the translation skipped.
query_samples_untranslated ==
    LET loaders == <<Ev("pool_dataloader", {"batch_size", "m"}, 0),
                     Ev("labeled_dataloader", {"batch_size"}, 0)>>
        r == ranking_step(pool_dataloader, labeled_dataloader)
    IN  IF r.err # ""
        THEN [r EXCEPT !.log = loaders \o r.log]
        ELSE [err |-> "", inds |-> r.inds, vals |-> r.vals, log |-> loaders \o r.log]

\* query_samples answering a failed ranking with empty arrays.
query_samples_swallow ==
    LET loaders == <<Ev("pool_dataloader", {"batch_size", "m"}, 0),
                     Ev("labeled_dataloader", {"batch_size"}, 0)>>
        r == ranking_step(pool_dataloader, labeled_dataloader)
    IN  [err |-> "",
         inds |-> get_pool_indices(r.inds),
         vals |-> r.vals,
         log |-> loaders \o r.log
                 \o <<Ev("get_pool_indices", {"acq_inds"}, Len(r.inds))>>]

\* QuerySampler.query_samples
query_samples ==
    LET loaders == <<Ev("pool_dataloader", {"batch_size", "m"}, 0),
                     Ev("labeled_dataloader", {"batch_size"}, 0)>>
        r == ranking_step(pool_dataloader, labeled_dataloader)
    IN  IF r.err # ""
        THEN [r EXCEPT !.log = loaders \o r.log]
        ELSE [err |-> "",
              inds |-> get_pool_indices(r.inds),
              vals |-> r.vals,
              log |-> loaders \o r.log
                      \o <<Ev("get_pool_indices", {"acq_inds"}, Len(r.inds))>>]

\* obtain_data_from_pool leaving out the last index.
obtain_data_from_pool_short(pool, indices) ==
    LET n == Len(indices) - 1
    IN  IF indices = <<>>
        THEN [err |-> "RuntimeError", data |-> <<>>, labels |-> <<>>, log |-> <<>>]
        ELSE [err |-> "",
              data |-> [i \in 1..n |-> pool[indices[i] + 1][1]],
              labels |-> [i \in 1..n |-> pool[indices[i] + 1][2]],
              log |-> [i \in 1..n |-> Ev("pool.__getitem__", {"ind"}, indices[i])]]

\* obtain_data_from_pool reading the pool at the loop position, not at the
\* index.
obtain_data_from_pool_positional(pool, indices) ==
    IF indices = <<>>
    THEN [err |-> "RuntimeError", data |-> <<>>, labels |-> <<>>, log |-> <<>>]
    ELSE [err |-> "",
          data |-> [i \in 1..Len(indices) |-> pool[i][1]],
          labels |-> [i \in 1..Len(indices) |-> pool[i][2]],
          log |-> [i \in 1..Len(indices) |-> Ev("pool.__getitem__", {"ind"}, i - 1)]]

\* obtain_data_from_pool: one read of the pool per index, in order;
\* torch.stack refuses an empty list.  Labels are class numbers, which
\* torch.tensor(..., dtype=torch.int) and .numpy() keep as they are.
obtain_data_from_pool(pool, indices) ==
    LET reads == [i \in 1..Len(indices) |-> Ev("pool.__getitem__", {"ind"}, indices[i])]
        bad == {i \in 1..Len(indices) : indices[i] >= Len(pool) \/ indices[i] < -Len(pool)}
        at(ind) == IF ind >= 0 THEN pool[ind + 1] ELSE pool[Len(pool) + ind + 1]
    IN  IF bad # {}
        THEN [err |-> "IndexError", data |-> <<>>, labels |-> <<>>,
              log |-> SubSeq(reads, 1, CHOOSE i \in bad : \A j \in bad : i <= j)]
        ELSE IF indices = <<>>
        THEN [err |-> "RuntimeError", data |-> <<>>, labels |-> <<>>, log |-> <<>>]
        ELSE [err |-> "",
              data |-> [i \in 1..Len(indices) |-> at(indices[i])[1]],
              labels |-> [i \in 1..Len(indices) |-> at(indices[i])[2]],
              log |-> reads]

\* The loop of evaluate_accuracy: <<correct, counts>> over the batches, a
\* batch being a sequence of <<pred, y>>.
RECURSIVE CountCorrect(_)
CountCorrect(batches) ==
    IF batches = <<>> THEN <<0, 0>>
    ELSE LET b == Head(batches)
             rest == CountCorrect(Tail(batches))
         IN  <<Cardinality({i \in 1..Len(b) : b[i][1] = b[i][2]}) + rest[1],
               Len(b) + rest[2]>>

\* evaluate_accuracy: 0 for a loader that is None, else correct / counts.
evaluate_accuracy(dataloader) ==
    LET call == Ev("evaluate_accuracy", {"model", "dataloader"}, 0)
    IN  IF ~dataloader.present
        THEN [err |-> "", acc |-> <<0, 1>>, log |-> <<call>>]
        ELSE LET c == CountCorrect(dataloader.batches)
             IN  IF c[2] = 0
                 THEN [err |-> "ZeroDivisionError", acc |-> <<0, 1>>, log |-> <<call>>]
                 ELSE [err |-> "", acc |-> c, log |-> <<call>>]

\* vis_callback: plots and saves two figures; whether plotting raises is the
\* environment's choice.
vis_callback(n, acq_labels, acq_data, acq_vals, raises) ==
    [err |-> IF raises THEN "Exception" ELSE "",
     log |-> <<Ev("vis_callback", {"n_labelled", "acq_labels", "acq_data", "acq_vals",
                                   "num_classes", "count"}, n)>>]

NoStore == ActiveStore(<<>>, 0, <<0, 1>>, <<0, 1>>, <<>>)

\* An exception leaving a call made on the QuerySampler.
Raised(op, vis, e, log) ==
    [op |-> op, vis |-> vis, vis_raised |-> FALSE, err |-> e, returned |-> FALSE,
     inds |-> <<>>, vals |-> <<>>, store |-> NoStore, log |-> log]

\* active_callback with the visualization called outside any try.
active_callback_no_try(vis, raises) ==
    LET q == query_samples
        d == obtain_data_from_pool(train_pool, q.inds)
        n == n_labelled
        av == evaluate_accuracy(val_loader)
        at == evaluate_accuracy(test_loader)
        v == vis_callback(n, d.labels, d.data, q.vals, raises)
        log1 == q.log \o d.log
        log2 == log1 \o <<Ev("val_dataloader", {}, 0)>> \o av.log
        log3 == log2 \o <<Ev("test_dataloader", {}, 0)>> \o at.log
    IN  IF q.err # "" THEN Raised("active_callback", vis, q.err, q.log)
        ELSE IF d.err # "" THEN Raised("active_callback", vis, d.err, log1)
        ELSE IF av.err # "" THEN Raised("active_callback", vis, av.err, log2)
        ELSE IF at.err # "" THEN Raised("active_callback", vis, at.err, log3)
        ELSE IF vis /\ v.err # ""
        THEN [Raised("active_callback", vis, v.err, log3 \o v.log) EXCEPT !.vis_raised = TRUE]
        ELSE [op |-> "active_callback", vis |-> vis, vis_raised |-> FALSE,
              err |-> "", returned |-> TRUE,
              inds |-> q.inds, vals |-> q.vals,
              store |-> ActiveStore(q.inds, n, av.acc, at.acc, d.labels),
              log |-> log3 \o (IF vis THEN v.log ELSE <<>>)]

\* QuerySampler.active_callback
active_callback(vis, raises) ==
    LET q == query_samples
        d == obtain_data_from_pool(train_pool, q.inds)
        n == n_labelled
        av == evaluate_accuracy(val_loader)
        at == evaluate_accuracy(test_loader)
        v == vis_callback(n, d.labels, d.data, q.vals, raises)
        log1 == q.log \o d.log
        log2 == log1 \o <<Ev("val_dataloader", {}, 0)>> \o av.log
        log3 == log2 \o <<Ev("test_dataloader", {}, 0)>> \o at.log
    IN  IF q.err # "" THEN Raised("active_callback", vis, q.err, q.log)
        ELSE IF d.err # "" THEN Raised("active_callback", vis, d.err, log1)
        ELSE IF av.err # "" THEN Raised("active_callback", vis, av.err, log2)
        ELSE IF at.err # "" THEN Raised("active_callback", vis, at.err, log3)
        ELSE [op |-> "active_callback", vis |-> vis,
              vis_raised |-> vis /\ v.err # "",
              err |-> "", returned |-> TRUE,
              inds |-> q.inds, vals |-> q.vals,
              store |-> ActiveStore(q.inds, n, av.acc, at.acc, d.labels),
              log |-> log3 \o (IF vis THEN v.log ELSE <<>>)
                           \o (IF vis /\ v.err # "" THEN <<Ev("print", {}, 0)>> ELSE <<>>)]

\* ------------------------------------------------------------------ inputs

\* Configured strategy names: prefixes in the uncertainty set, in the
\* diversity set, and in neither (unknown, empty, or unsplit).
StrategyNames ==
    {<<"e">>, <<"b", "_", "e">>, <<"k", "_", "b">>,
     <<"x", "_", "e">>, <<"_", "k">>, <<"e", "k">>}

\* Translations of the pool-local indices 0..P-1: identity, reversal, and a
\* rotation by one.
Translations(P) ==
    {[i \in 1..P |-> i - 1], [i \in 1..P |-> P - i], [i \in 1..P |-> i % P]}

\* The pool by caller-visible index i: data i, and a label that is distinct
\* per sample, or alternating between two classes.
Pools(P) ==
    {[i \in 1..P |-> <<i - 1, i - 1>>], [i \in 1..P |-> <<i - 1, i % 2>>]}

NoneLoader == [present |-> FALSE, batches |-> <<>>]

Loader(batches) == [present |-> TRUE, batches |-> batches]

\* Loaders of an evaluation split: None, no batch, and two batches of
\* <<pred, y>> with two of three predictions right.
SplitLoaders ==
    {NoneLoader, Loader(<<>>), Loader(<<<<<<1, 1>>, <<0, 0>>>>, <<<<0, 1>>>>>>)}

NoResult ==
    [op |-> "none", vis |-> FALSE, vis_raised |-> FALSE, err |-> "", returned |-> FALSE,
     inds |-> <<>>, vals |-> <<>>, store |-> NoStore, log |-> <<>>]

Init ==
    /\ acq_method \in StrategyNames
    /\ rng \in (IF SplitFirst(acq_method) \in diversity_names THEN {0, 1} ELSE {0})
    /\ \E P \in 0..MaxPool :
          /\ pool_values \in [1..P -> 0..1]
          /\ train_pool \in Pools(P)
          /\ trans \in Translations(P)
          /\ acq_size \in 1..(P + 1)
    /\ n_labelled = 2
    /\ labeled = <<0, 1>>
    /\ val_loader \in SplitLoaders
    /\ test_loader \in SplitLoaders
    /\ result = NoResult

\* ----------------------------------------------------------------- actions

\* A call of ranking_step on the loaders of the datamodule.
RankingStepCall ==
    /\ LET r == ranking_step(pool_dataloader, labeled_dataloader)
       IN  result' = [op |-> "ranking_step", vis |-> FALSE, vis_raised |-> FALSE,
                      err |-> r.err, returned |-> r.err = "",
                      inds |-> r.inds, vals |-> r.vals, store |-> NoStore, log |-> r.log]
    /\ UNCHANGED inputs

\* A call of query_samples(datamodule).
QuerySamplesCall ==
    /\ LET q == query_samples
       IN  result' = [op |-> "query_samples", vis |-> FALSE, vis_raised |-> FALSE,
                      err |-> q.err, returned |-> q.err = "",
                      inds |-> q.inds, vals |-> q.vals, store |-> NoStore, log |-> q.log]
    /\ UNCHANGED inputs

\* A call of active_callback(datamodule, vis).
ActiveCallbackCall ==
    /\ \E vis \in BOOLEAN : \E raises \in (IF vis THEN BOOLEAN ELSE {FALSE}) :
          result' = active_callback(vis, raises)
    /\ UNCHANGED inputs

Next == RankingStepCall \/ QuerySamplesCall \/ ActiveCallbackCall

Spec == Init /\ [][Next]_vars

\* ------------------------------------------------- the ranking on its own

\* The pool of the worked example: scores 0.1, 0.9, 0.3, 0.9, 0.2, 0.05, 0.4,
\* 0.9, 0.6, 0.0 in hundredths.
ExamplePool == <<10, 90, 30, 90, 20, 5, 40, 90, 60, 0>>

\* Pools with every assignment of the scores 0..MaxScore, and the example;
\* the rest of the datamodule is fixed.
InitRank ==
    /\ acq_method \in StrategyNames
    /\ rng \in (IF SplitFirst(acq_method) \in diversity_names THEN {0, 1} ELSE {0})
    /\ \/ \E P \in 0..MaxPool :
             /\ pool_values \in [1..P -> 0..MaxScore]
             /\ acq_size \in 1..(P + 1)
       \/ /\ pool_values = ExamplePool
          /\ acq_size \in {Len(ExamplePool) \div 3, Len(ExamplePool) + 1}
    /\ train_pool = [i \in 1..Len(pool_values) |-> <<i - 1, i - 1>>]
    /\ trans = [i \in 1..Len(pool_values) |-> i - 1]
    /\ n_labelled = 2
    /\ labeled = <<0, 1>>
    /\ val_loader = NoneLoader
    /\ test_loader = NoneLoader
    /\ result = NoResult

NextRank == RankingStepCall

SpecRank == InitRank /\ [][NextRank]_vars

\* ------------------------------------------------------------------ claims

Prefix == SplitFirst(acq_method)

Supported == Prefix \in uncertainty_names \cup diversity_names

PoolSize == Len(pool_values)

UncCalls == Where(result.log, "query_uncertainty.query_sampler")

DivCalls == Where(result.log, "query_diversity.query_sampler")

TransCalls == Where(result.log, "get_pool_indices")

PoolReads == Where(result.log, "pool.__getitem__")

\* The events of a log at the positions in where, in order.
RECURSIVE Pick(_, _)
Pick(log, where) ==
    IF log = <<>> THEN <<>>
    ELSE Pick(SubSeq(log, 1, Len(log) - 1), where)
         \o (IF Len(log) \in where THEN <<log[Len(log)]>> ELSE <<>>)

\* C1: whenever the prefix of the configured strategy name is in neither
\* name set, a call of ranking_step, query_samples or active_callback ends
\* with the unsupported-strategy error (NotImplementedError), returns
\* nothing (no ActiveStore), and the only collaborators called before the
\* error are the two loaders: no acquisition function, no sampler, no index
\* translation, no pool read, no accuracy evaluation, no visualization.
C1_UnsupportedStrategyAborts ==
    (result.op # "none" /\ ~Supported) =>
        /\ result.err = "NotImplementedError"
        /\ ~result.returned
        /\ result.store = NoStore
        /\ \A i \in 1..Len(result.log) :
              result.log[i].op \in {"pool_dataloader", "labeled_dataloader"}

C1_Witness ==
    /\ result.op = "active_callback"
    /\ result.vis
    /\ Prefix = <<"x">>
    /\ PoolSize >= 2
    /\ result.err = "NotImplementedError"

\* C2: when the visualization step of active_callback(vis=True) raises, the
\* call still returns an ActiveStore, equal field by field (requests,
\* labels, n_labelled, accuracy_val, accuracy_test) to the one
\* active_callback(vis=False) returns on the same inputs; and an
\* active_callback returns exactly when no other step raised, so the
\* visualization failure is the only error that is caught.
C2_VisFailureIsolated ==
    result.op = "active_callback" =>
        /\ (result.vis /\ result.vis_raised) =>
              /\ result.returned
              /\ result.err = ""
              /\ active_callback(FALSE, FALSE).returned
              /\ result.store = active_callback(FALSE, FALSE).store
        /\ result.returned <=>
              /\ query_samples.err = ""
              /\ obtain_data_from_pool(train_pool, query_samples.inds).err = ""
              /\ evaluate_accuracy(val_loader).err = ""
              /\ evaluate_accuracy(test_loader).err = ""

C2_Witness ==
    /\ result.op = "active_callback"
    /\ result.vis
    /\ result.vis_raised
    /\ result.returned
    /\ Len(result.store.requests) >= 2
    /\ result.store.accuracy_val = <<2, 3>>

\* C3: a query_samples that returns hands back the translation of the whole
\* sequence of pool-local indices of the ranking, in the same order and
\* number, with the ranking's scores unchanged; get_pool_indices is called
\* exactly once, on that whole sequence, after the sampler; and the requests
\* of the ActiveStore of active_callback are these translated indices.
C3_IndicesTranslatedOnce ==
    (result.op \in {"query_samples", "active_callback"} /\ result.returned) =>
        LET r == ranking_step(pool_dataloader, labeled_dataloader)
        IN  /\ r.err = ""
            /\ Len(result.inds) = Len(r.inds)
            /\ \A i \in 1..Len(r.inds) : result.inds[i] = trans[r.inds[i] + 1]
            /\ result.vals = r.vals
            /\ Cardinality(TransCalls) = 1
            /\ \A t \in TransCalls :
                  /\ result.log[t].n = Len(r.inds)
                  /\ \A c \in UncCalls \cup DivCalls : c < t
                  /\ \A p \in PoolReads : t < p
            /\ result.op = "active_callback" => result.store.requests = result.inds

C3_Witness ==
    /\ result.op = "active_callback"
    /\ result.returned
    /\ Len(result.store.requests) >= 2
    /\ \A i \in 1..Len(result.store.requests) :
          result.store.requests[i]
              # ranking_step(pool_dataloader, labeled_dataloader).inds[i]

\* C4: in every ActiveStore active_callback returns, requests, labels and
\* the scores of the round's query_samples have the same length.
C4_LengthsAgree ==
    (result.op = "active_callback" /\ result.returned) =>
        /\ result.vals = query_samples.vals
        /\ Len(result.store.requests) = Len(result.store.labels)
        /\ Len(result.store.labels) = Len(result.vals)

C4_Witness ==
    /\ result.op = "active_callback"
    /\ result.returned
    /\ Len(result.store.requests) = MaxPool
    /\ Len(result.store.labels) = MaxPool

C7_UnavailableSplitIsZero ==
    (/\ result.op = "active_callback"
     /\ query_samples.err = ""
     /\ obtain_data_from_pool(train_pool, query_samples.inds).err = "") =>
        LET unavailable(l) == ~l.present \/ l.batches = <<>>
            fine(l, acc) == /\ unavailable(l) => acc[1] = 0
                            /\ 0 <= acc[1] /\ acc[1] <= acc[2] /\ acc[2] > 0
        IN  /\ result.returned
            /\ fine(val_loader, result.store.accuracy_val)
            /\ fine(test_loader, result.store.accuracy_test)

C9_ExclusiveDispatch ==
    result.op = "ranking_step" =>
        LET same(r) == /\ result.err = r.err
                       /\ result.inds = r.inds
                       /\ result.vals = r.vals
        IN  /\ Cardinality(UncCalls) + Cardinality(DivCalls) <= 1
            /\ Prefix \in uncertainty_names =>
                  /\ Cardinality(UncCalls) = 1
                  /\ \A c \in UncCalls :
                        /\ result.log[c].args = {"pool_loader", "acq_function",
                                                 "post_acq_function", "acq_size"}
                        /\ result.log[c].n = acq_size
                  /\ same(uncertainty_query_sampler(pool_dataloader, TRUE, TRUE, acq_size))
            /\ (Prefix \notin uncertainty_names /\ Prefix \in diversity_names) =>
                  /\ Cardinality(DivCalls) = 1
                  /\ \A c \in DivCalls :
                        /\ {"labeled_loader", "pool_loader", "acq_size"}
                              \subseteq result.log[c].args
                        /\ result.log[c].n = acq_size
                  /\ same(diversity_query_sampler(labeled_dataloader, pool_dataloader,
                                                  acq_size, rng))
            /\ ~Supported =>
                  /\ UncCalls \cup DivCalls = {}
                  /\ result.err = "NotImplementedError"

C9_Witness ==
    /\ result.op = "ranking_step"
    /\ acq_method = <<"k", "_", "b">>
    /\ Cardinality(DivCalls) = 1
    /\ UncCalls = {}
    /\ Len(result.inds) >= 2

\* The labels of a returned ActiveStore are those the pool holds at the
\* requests, position by position; the pool was read once per request, in
\* the order of the requests, after the sampler and the index translation.
LabelsFollowRequests ==
    (result.op = "active_callback" /\ result.returned) =>
        LET requests == result.store.requests
            reads == Pick(result.log, PoolReads)
        IN  /\ Len(result.store.labels) = Len(requests)
            /\ \A i \in 1..Len(requests) :
                  result.store.labels[i] = train_pool[requests[i] + 1][2]
            /\ Len(reads) = Len(requests)
            /\ \A i \in 1..Len(requests) : reads[i].n = requests[i]
            /\ \A p \in PoolReads : \A c \in UncCalls \cup DivCalls \cup TransCalls : c < p
            /\ result.store.n_labelled = n_labelled

\* C10: labels[i] of every returned ActiveStore is the label the pool holds
\* at requests[i], the pool being read once per request, in order and only
\* after the ranking has completed; and no call changes the pool or
\* n_labelled.
C10_LabelsAligned ==
    /\ []LabelsFollowRequests
    /\ [][train_pool' = train_pool /\ n_labelled' = n_labelled]_vars

C10_Witness ==
    /\ result.op = "active_callback"
    /\ result.returned
    /\ Len(result.store.requests) >= 2
    /\ result.store.requests[1] # 0
    /\ result.store.labels[1] # result.store.labels[2]

====
